---- MODULE Spec2Model ----
(***************************************************************************)
(* Admin authentication core of the portfolio backend                      *)
(* (src/app/routes/admin.py): JWT issue/verify, the per-IP login rate      *)
(* limiter, the session registry and the token blacklist.                  *)
(*                                                                         *)
(* Time is the wall clock in whole seconds (the resolution of the JWT exp  *)
(* claim); a handler runs at one instant.  The handlers of the access      *)
(* layer are coroutines without await points, so each one is one atomic    *)
(* step of the event loop; the blog handlers (src/app/routes/blog.py and   *)
(* the blog routes of admin.py) await the database and take one step per   *)
(* database operation.                                                     *)
(***************************************************************************)
EXTENDS Integers, FiniteSets, Sequences, TLC

\* ------------------------------------------------------------------ bounds
MaxSessions == 3          \* session ids generate_session_id can still draw
MaxPosts == 2             \* documents the blog_posts collection can hold
MaxCalls == 2             \* blog handlers in flight at once

\* ------------------------------------------------------- program constants
ACCESS_TOKEN_EXPIRE_MINUTES == 30
REMEMBER_MINUTES == 60 * 24 * 7
MAX_LOGIN_ATTEMPTS == 5
LOCKOUT_DURATION == 3600
ADMIN_USERNAME == "Mr.hacker"
ADMIN_PASSWORD == "Mr.hacker@19"
ISSUER == "cyber-portfolio-admin"
AUDIENCE == "cyber-portfolio-frontend"

\* ------------------------------------------------------------- input sets
IP1 == "1.2.3.4"
IP2 == "5.6.7.8"
Sids == 1..MaxSessions
NoSession == 0            \* payload.get("session_id") is None

\* the instants the clock visits: just before, at and just after a token
\* lifetime or the lockout duration has passed since the start
Around(d) == {d - 1, d, d + 1}
FarFuture == REMEMBER_MINUTES * 60 * 4

VARIABLES now, login_attempts, active_sessions, token_blacklist, issued, resp,
          blog_posts, blog_calls
vars == <<now, login_attempts, active_sessions, token_blacklist, issued, resp,
          blog_posts, blog_calls>>
\* the blog_posts collection and the blog handlers in flight
blog == <<blog_posts, blog_calls>>

\* ------------------------------------------------------------------ tokens
\* A token string is modelled by what jwt.decode reads from it: whether its
\* HS256 signature verifies under SECRET_KEY, and its claims.  The random
\* jti makes every minted token distinct; here the session id, unique per
\* login, does.
Token(sig, sub, sid, iat, exp, iss, aud) ==
    [sig |-> sig, sub |-> sub, sid |-> sid, iat |-> iat, exp |-> exp,
     iss |-> iss, aud |-> aud]

NoToken == Token(FALSE, "", NoSession, 0, 0, "", "")

\* a token the server never minted: its signature does not verify
Garbage == Token(FALSE, ADMIN_USERNAME, NoSession, 0, FarFuture, ISSUER, AUDIENCE)

\* create_access_token that always takes the default lifetime
create_access_token_default(sub, sid, expires_delta, t) ==
    Token(TRUE, sub, sid, t, t + ACCESS_TOKEN_EXPIRE_MINUTES * 60, ISSUER, AUDIENCE)

create_access_token(sub, sid, expires_delta, t) ==
    Token(TRUE, sub, sid, t, t + expires_delta, ISSUER, AUDIENCE)

\* jwt.decode: signature, then exp, then aud; "ok" when all pass
jwt_decode(tk, t) ==
    IF ~tk.sig THEN "Invalid token"
    ELSE IF tk.exp <= t THEN "Token expired"
    ELSE IF tk.aud # AUDIENCE THEN "Invalid token"
    ELSE "ok"

\* verify_token without the issuer comparison
verify_token_no_issuer(tk, blacklist, t) ==
    IF tk \in blacklist THEN "Token revoked"
    ELSE IF jwt_decode(tk, t) # "ok" THEN jwt_decode(tk, t)
    ELSE "ok"

\* verify_token that consults the blacklist after decoding
verify_token_late_revocation(tk, blacklist, t) ==
    IF jwt_decode(tk, t) # "ok" THEN jwt_decode(tk, t)
    ELSE IF tk \in blacklist THEN "Token revoked"
    ELSE IF tk.iss # ISSUER THEN "Invalid token issuer"
    ELSE "ok"

verify_token(tk, blacklist, t) ==
    IF tk \in blacklist THEN "Token revoked"
    ELSE IF jwt_decode(tk, t) # "ok" THEN jwt_decode(tk, t)
    ELSE IF tk.iss # ISSUER THEN "Invalid token issuer"
    ELSE "ok"

\* ---------------------------------------------------------------- requests
\* A request source is absent, present with an empty value, or present
\* with a token.  The Authorization header can also carry another scheme
\* ("basic"); its "empty" value is a Bearer header whose split(" ")[1] is
\* the empty string.
Src(k, t) == [k |-> k, t |-> t]
Absent == Src("absent", NoToken)
Empty == Src("empty", NoToken)
Basic == Src("basic", NoToken)
Tok(t) == Src("tok", t)
Req(a, c, x) == [auth |-> a, cookie |-> c, xauth |-> x]
NoReq == Req(Absent, Absent, Absent)

\* token = None / "" / a token string
extract_admin_token(req) ==
    IF req.auth.k \in {"tok", "empty"} THEN req.auth
    ELSE IF req.cookie.k # "absent" THEN req.cookie
    ELSE IF req.xauth.k # "absent" THEN req.xauth
    ELSE Absent

extract_logout_token(req) ==
    IF req.auth.k \in {"tok", "empty"} THEN req.auth
    ELSE IF req.cookie.k # "absent" THEN req.cookie
    ELSE Absent

\* verify_admin_token that looks the session up before verifying the token
verify_admin_token_session_first(req, sessions, blacklist, t) ==
    LET src == extract_admin_token(req) IN
    IF src.k # "tok" THEN "Not authenticated"
    ELSE IF src.t.sid # NoSession /\ src.t.sid \notin DOMAIN sessions
         THEN "Session expired"
    ELSE IF verify_token(src.t, blacklist, t) # "ok"
         THEN verify_token(src.t, blacklist, t)
    ELSE "ok"

verify_admin_token(req, sessions, blacklist, t) ==
    LET src == extract_admin_token(req) IN
    IF src.k # "tok" THEN "Not authenticated"
    ELSE IF verify_token(src.t, blacklist, t) # "ok"
         THEN verify_token(src.t, blacklist, t)
    ELSE IF src.t.sid # NoSession /\ src.t.sid \notin DOMAIN sessions
         THEN "Session expired"
    ELSE "ok"

\* ------------------------------------------------------------ rate limiter
Without(f, k) == [x \in (DOMAIN f) \ {k} |-> f[x]]
With(f, k, v) == [x \in (DOMAIN f) \cup {k} |-> IF x = k THEN v ELSE f[x]]

\* check_rate_limit that locks only above the maximum
check_rate_limit_above(attempts, ip, t) ==
    IF ip \in DOMAIN attempts
    THEN LET n == attempts[ip][1]
             first == attempts[ip][2]
         IN  IF n > MAX_LOGIN_ATTEMPTS /\ t - first < LOCKOUT_DURATION
             THEN [locked |-> TRUE,
                   minutes |-> (LOCKOUT_DURATION - (t - first)) \div 60,
                   attempts |-> attempts]
             ELSE IF t - first >= LOCKOUT_DURATION
             THEN [locked |-> FALSE, minutes |-> 0, attempts |-> Without(attempts, ip)]
             ELSE [locked |-> FALSE, minutes |-> 0, attempts |-> attempts]
    ELSE [locked |-> FALSE, minutes |-> 0, attempts |-> attempts]

\* check_rate_limit that locks every address while any address is locked
check_rate_limit_global(attempts, ip, t) ==
    IF \E o \in DOMAIN attempts :
          attempts[o][1] >= MAX_LOGIN_ATTEMPTS /\ t - attempts[o][2] < LOCKOUT_DURATION
    THEN [locked |-> TRUE, minutes |-> 0, attempts |-> attempts]
    ELSE IF ip \in DOMAIN attempts /\ t - attempts[ip][2] >= LOCKOUT_DURATION
    THEN [locked |-> FALSE, minutes |-> 0, attempts |-> Without(attempts, ip)]
    ELSE [locked |-> FALSE, minutes |-> 0, attempts |-> attempts]

\* check_rate_limit whose lockout does not end with the window
check_rate_limit_forever(attempts, ip, t) ==
    IF ip \in DOMAIN attempts
    THEN LET n == attempts[ip][1]
             first == attempts[ip][2]
         IN  IF n >= MAX_LOGIN_ATTEMPTS
             THEN [locked |-> TRUE,
                   minutes |-> (LOCKOUT_DURATION - (t - first)) \div 60,
                   attempts |-> attempts]
             ELSE IF t - first >= LOCKOUT_DURATION
             THEN [locked |-> FALSE, minutes |-> 0, attempts |-> Without(attempts, ip)]
             ELSE [locked |-> FALSE, minutes |-> 0, attempts |-> attempts]
    ELSE [locked |-> FALSE, minutes |-> 0, attempts |-> attempts]

\* check_rate_limit that keeps the record when the window has elapsed
check_rate_limit_keep(attempts, ip, t) ==
    IF ip \in DOMAIN attempts
    THEN LET n == attempts[ip][1]
             first == attempts[ip][2]
         IN  IF n >= MAX_LOGIN_ATTEMPTS /\ t - first < LOCKOUT_DURATION
             THEN [locked |-> TRUE,
                   minutes |-> (LOCKOUT_DURATION - (t - first)) \div 60,
                   attempts |-> attempts]
             ELSE [locked |-> FALSE, minutes |-> 0, attempts |-> attempts]
    ELSE [locked |-> FALSE, minutes |-> 0, attempts |-> attempts]

\* check_rate_limit that measures the window from the last failure
check_rate_limit_since_last(attempts, ip, t) ==
    IF ip \in DOMAIN attempts
    THEN LET n == attempts[ip][1]
             last == attempts[ip][3]
         IN  IF n >= MAX_LOGIN_ATTEMPTS /\ t - last < LOCKOUT_DURATION
             THEN [locked |-> TRUE,
                   minutes |-> (LOCKOUT_DURATION - (t - last)) \div 60,
                   attempts |-> attempts]
             ELSE IF t - last >= LOCKOUT_DURATION
             THEN [locked |-> FALSE, minutes |-> 0, attempts |-> Without(attempts, ip)]
             ELSE [locked |-> FALSE, minutes |-> 0, attempts |-> attempts]
    ELSE [locked |-> FALSE, minutes |-> 0, attempts |-> attempts]

\* check_rate_limit that reports the remaining time in whole hours
check_rate_limit_hours(attempts, ip, t) ==
    IF ip \in DOMAIN attempts
    THEN LET n == attempts[ip][1]
             first == attempts[ip][2]
         IN  IF n >= MAX_LOGIN_ATTEMPTS /\ t - first < LOCKOUT_DURATION
             THEN [locked |-> TRUE,
                   minutes |-> (LOCKOUT_DURATION - (t - first)) \div 3600,
                   attempts |-> attempts]
             ELSE IF t - first >= LOCKOUT_DURATION
             THEN [locked |-> FALSE, minutes |-> 0, attempts |-> Without(attempts, ip)]
             ELSE [locked |-> FALSE, minutes |-> 0, attempts |-> attempts]
    ELSE [locked |-> FALSE, minutes |-> 0, attempts |-> attempts]

\* [locked, minutes, attempts]: whether HTTP 429 is raised, the minutes its
\* message reports, and login_attempts after the call
check_rate_limit(attempts, ip, t) ==
    IF ip \in DOMAIN attempts
    THEN LET n == attempts[ip][1]
             first == attempts[ip][2]
         IN  IF n >= MAX_LOGIN_ATTEMPTS /\ t - first < LOCKOUT_DURATION
             THEN [locked |-> TRUE,
                   minutes |-> (LOCKOUT_DURATION - (t - first)) \div 60,
                   attempts |-> attempts]
             ELSE IF t - first >= LOCKOUT_DURATION
             THEN [locked |-> FALSE, minutes |-> 0, attempts |-> Without(attempts, ip)]
             ELSE [locked |-> FALSE, minutes |-> 0, attempts |-> attempts]
    ELSE [locked |-> FALSE, minutes |-> 0, attempts |-> attempts]

\* track_failed_attempt that restarts the clock of the streak
track_failed_attempt_restart(attempts, ip, t) ==
    IF ip \notin DOMAIN attempts
    THEN With(attempts, ip, <<1, t, t>>)
    ELSE With(attempts, ip, <<attempts[ip][1] + 1, t, t>>)

\* track_failed_attempt that writes back the count another request read
\* at the same instant
track_failed_attempt_lost(attempts, ip, t) ==
    IF ip \notin DOMAIN attempts
    THEN With(attempts, ip, <<1, t, t>>)
    ELSE IF attempts[ip][3] = t
    THEN attempts
    ELSE With(attempts, ip, <<attempts[ip][1] + 1, attempts[ip][2], t>>)

track_failed_attempt(attempts, ip, t) ==
    IF ip \notin DOMAIN attempts
    THEN With(attempts, ip, <<1, t, t>>)
    ELSE With(attempts, ip, <<attempts[ip][1] + 1, attempts[ip][2], t>>)

\* clear_attempts that takes one failure off the count
clear_attempts_decrement(attempts, ip) ==
    IF ip \in DOMAIN attempts /\ attempts[ip][1] > 1
    THEN With(attempts, ip, <<attempts[ip][1] - 1, attempts[ip][2], attempts[ip][3]>>)
    ELSE IF ip \in DOMAIN attempts THEN Without(attempts, ip) ELSE attempts

clear_attempts(attempts, ip) ==
    IF ip \in DOMAIN attempts THEN Without(attempts, ip) ELSE attempts

\* --------------------------------------------------------------- responses
\* The last exchange: the route, the client address, the token sources and
\* the submitted credentials of the request, and of the response the HTTP
\* status, the detail, and
\* what the route returns: the token and expires_in of a login, the minutes
\* a 429 message reports, the terminated_sessions of a lockdown, the
\* cookies deleted, the cookies set with their max_age, the sessions an
\* introspection route reports.  attempts_before is the failure count the
\* address of a login had on record when the handler started.
BothCookies == {"admin_token", "admin_session"}
NoSessions == [x \in {} |-> [username |-> "", ip_address |-> ""]]
Cookie(key, max_age) == [key |-> key, max_age |-> max_age]
Credentials(username, password) == [username |-> username, password |-> password]
NoLogin == Credentials("", "")
Response(op, ip, req, status, detail) ==
    [op |-> op, ip |-> ip, req |-> req, login |-> NoLogin,
     status |-> status, detail |-> detail,
     token |-> NoToken, expires_in |-> 0, minutes |-> 0, terminated |-> {},
     deleted |-> {}, set_cookies |-> {}, reported |-> NoSessions,
     attempts_before |-> 0]

\* ---------------------------------------------------------------- the blog
\* The blog_posts collection maps the id of a document to its title and
\* slug.  A blog handler awaits every database operation, so other handlers
\* run between its find_one and its insert_one or update_one: a call in
\* flight keeps its local variables in blog_calls, and each database
\* operation is one step.
PostIds == 1..MaxPosts
NoPost == 0
Calls == 1..MaxCalls
Titles == {"Hello", "Hello 1"}

\* python-slugify: lower case, every run of other characters becomes one
\* hyphen, hyphens at the ends are stripped
slugify(title) ==
    CASE title = "Hello" -> "hello"
      [] title = "Hello 1" -> "hello-1"
      [] OTHER -> ""

\* f"{base_slug}-{counter}"
Numbered(base_slug, counter) == base_slug \o "-" \o ToString(counter)

Post(title, slug) == [title |-> title, slug |-> slug]
NoPosts == [p \in {} |-> Post("", "")]

Call(route, req, post_id, title, slug, counter, pc) ==
    [route |-> route, req |-> req, post_id |-> post_id, title |-> title,
     slug |-> slug, counter |-> counter, pc |-> pc]
Idle == Call("", NoReq, NoPost, "", "", 0, "idle")

Init ==
    /\ now = 0
    /\ login_attempts = [x \in {} |-> <<0, 0, 0>>]
    /\ active_sessions = [x \in {} |-> [username |-> "", ip_address |-> ""]]
    /\ token_blacklist = {}
    /\ issued = {}
    /\ resp = Response("none", "", NoReq, 0, "")
    /\ blog_posts = NoPosts
    /\ blog_calls = [c \in Calls |-> Idle]

\* ------------------------------------------------------------------ actions
Tick(instants) ==
    /\ \E t \in instants : t > now /\ now' = t
    /\ UNCHANGED <<blog, login_attempts, active_sessions, token_blacklist, issued, resp>>

\* secrets.token_urlsafe(32) never repeats; ids are named in order of creation
UsedSids == {tk.sid : tk \in issued}
\* generate_session_id that hands out the same id again
generate_session_id_fixed == CHOOSE s \in Sids : \A o \in Sids : s <= o

\* generate_session_id that hands out a released id again
generate_session_id_released ==
    CHOOSE s \in Sids \ DOMAIN active_sessions :
        \A o \in Sids \ DOMAIN active_sessions : s <= o

generate_session_id == CHOOSE s \in Sids \ UsedSids : \A o \in Sids \ UsedSids : s <= o

\* the lifetime taken as a number of seconds where the code builds a
\* timedelta of minutes
expires_delta_seconds(remember) ==
    IF ~remember THEN ACCESS_TOKEN_EXPIRE_MINUTES ELSE REMEMBER_MINUTES

expires_delta(remember) ==
    (IF ~remember THEN ACCESS_TOKEN_EXPIRE_MINUTES ELSE REMEMBER_MINUTES) * 60

\* the failure count on record for an address, 0 when it has no record
RecordedAttempts(attempts, ip) ==
    IF ip \in DOMAIN attempts THEN attempts[ip][1] ELSE 0

\* admin_login that compares the password only
admin_login_password(ip, username, password, remember) ==
    LET chk == check_rate_limit(login_attempts, ip, now) IN
    IF chk.locked
    THEN /\ resp' = [Response("login", ip, NoReq, 429, "Too many login attempts")
                       EXCEPT !.login = Credentials(username, password),
                              !.minutes = chk.minutes,
                              !.attempts_before = RecordedAttempts(login_attempts, ip)]
         /\ UNCHANGED <<blog, now, login_attempts, active_sessions, token_blacklist, issued>>
    ELSE IF ~(password = ADMIN_PASSWORD)
    THEN /\ login_attempts' = track_failed_attempt(chk.attempts, ip, now)
         /\ resp' = [Response("login", ip, NoReq, 401, "Invalid credentials")
                       EXCEPT !.login = Credentials(username, password),
                              !.attempts_before = RecordedAttempts(login_attempts, ip)]
         /\ UNCHANGED <<blog, now, active_sessions, token_blacklist, issued>>
    ELSE /\ Sids \ UsedSids # {}
         /\ LET sid == generate_session_id
                tk == create_access_token(username, sid, expires_delta(remember), now)
            IN  /\ login_attempts' = clear_attempts(chk.attempts, ip)
                /\ active_sessions' = With(active_sessions, sid,
                                           [username |-> username, ip_address |-> ip])
                /\ issued' = issued \cup {tk}
                /\ resp' = [Response("login", ip, NoReq, 200, "Authentication successful")
                              EXCEPT !.login = Credentials(username, password),
                                     !.token = tk,
                                     !.expires_in = expires_delta(remember),
                                     !.set_cookies =
                                         {Cookie("admin_token", expires_delta(remember)),
                                          Cookie("admin_session", expires_delta(remember))},
                                     !.attempts_before =
                                         RecordedAttempts(login_attempts, ip)]
         /\ UNCHANGED <<blog, now, token_blacklist>>

admin_login(ip, username, password, remember) ==
    LET chk == check_rate_limit(login_attempts, ip, now) IN
    IF chk.locked
    THEN /\ resp' = [Response("login", ip, NoReq, 429, "Too many login attempts")
                       EXCEPT !.login = Credentials(username, password),
                              !.minutes = chk.minutes,
                              !.attempts_before = RecordedAttempts(login_attempts, ip)]
         /\ UNCHANGED <<blog, now, login_attempts, active_sessions, token_blacklist, issued>>
    ELSE IF ~(username = ADMIN_USERNAME /\ password = ADMIN_PASSWORD)
    THEN /\ login_attempts' = track_failed_attempt(chk.attempts, ip, now)
         /\ resp' = [Response("login", ip, NoReq, 401, "Invalid credentials")
                       EXCEPT !.login = Credentials(username, password),
                              !.attempts_before = RecordedAttempts(login_attempts, ip)]
         /\ UNCHANGED <<blog, now, active_sessions, token_blacklist, issued>>
    ELSE /\ Sids \ UsedSids # {}
         /\ LET sid == generate_session_id
                tk == create_access_token(username, sid, expires_delta(remember), now)
            IN  /\ login_attempts' = clear_attempts(chk.attempts, ip)
                /\ active_sessions' = With(active_sessions, sid,
                                           [username |-> username, ip_address |-> ip])
                /\ issued' = issued \cup {tk}
                /\ resp' = [Response("login", ip, NoReq, 200, "Authentication successful")
                              EXCEPT !.login = Credentials(username, password),
                                     !.token = tk,
                                     !.expires_in = expires_delta(remember),
                                     !.set_cookies =
                                         {Cookie("admin_token", expires_delta(remember)),
                                          Cookie("admin_session", expires_delta(remember))},
                                     !.attempts_before =
                                         RecordedAttempts(login_attempts, ip)]
         /\ UNCHANGED <<blog, now, token_blacklist>>

\* admin_logout that terminates every session of the token's subject
admin_logout_all(req) ==
    LET src == extract_logout_token(req)
        valid == src.k = "tok" /\ verify_token(src.t, token_blacklist, now) = "ok"
    IN  /\ IF valid
           THEN /\ token_blacklist' = token_blacklist \cup {src.t}
                /\ active_sessions' =
                      [s \in {x \in DOMAIN active_sessions :
                                 active_sessions[x].username # src.t.sub}
                         |-> active_sessions[s]]
           ELSE UNCHANGED <<token_blacklist, active_sessions>>
        /\ resp' = [Response("logout", "", req, 200, "Successfully logged out")
                      EXCEPT !.deleted = BothCookies]
        /\ UNCHANGED <<blog, now, login_attempts, issued>>

\* admin_logout that keeps only the latest token in the blacklist
admin_logout_replace(req) ==
    LET src == extract_logout_token(req)
        valid == src.k = "tok" /\ verify_token(src.t, token_blacklist, now) = "ok"
    IN  /\ IF valid
           THEN /\ token_blacklist' = {src.t}
                /\ active_sessions' = IF src.t.sid \in DOMAIN active_sessions
                                      THEN Without(active_sessions, src.t.sid)
                                      ELSE active_sessions
           ELSE UNCHANGED <<token_blacklist, active_sessions>>
        /\ resp' = [Response("logout", "", req, 200, "Successfully logged out")
                      EXCEPT !.deleted = BothCookies]
        /\ UNCHANGED <<blog, now, login_attempts, issued>>

\* admin_logout that leaves the session in the registry
admin_logout_torn(req) ==
    LET src == extract_logout_token(req)
        valid == src.k = "tok" /\ verify_token(src.t, token_blacklist, now) = "ok"
    IN  /\ IF valid
           THEN /\ token_blacklist' = token_blacklist \cup {src.t}
                /\ UNCHANGED active_sessions
           ELSE UNCHANGED <<token_blacklist, active_sessions>>
        /\ resp' = [Response("logout", "", req, 200, "Successfully logged out")
                      EXCEPT !.deleted = BothCookies]
        /\ UNCHANGED <<blog, now, login_attempts, issued>>

\* admin_logout that blacklists the token before verifying it
admin_logout_eager(req) ==
    LET src == extract_logout_token(req)
        valid == src.k = "tok" /\ verify_token(src.t, token_blacklist, now) = "ok"
    IN  /\ token_blacklist' = IF src.k = "tok" THEN token_blacklist \cup {src.t}
                              ELSE token_blacklist
        /\ active_sessions' = IF valid /\ src.t.sid \in DOMAIN active_sessions
                              THEN Without(active_sessions, src.t.sid)
                              ELSE active_sessions
        /\ resp' = [Response("logout", "", req, 200, "Successfully logged out")
                      EXCEPT !.deleted = BothCookies]
        /\ UNCHANGED <<blog, now, login_attempts, issued>>

\* admin_logout that blacklists the token and leaves its session registered
admin_logout_listed(req) ==
    LET src == extract_logout_token(req)
        valid == src.k = "tok" /\ verify_token(src.t, token_blacklist, now) = "ok"
    IN  /\ IF valid
           THEN /\ token_blacklist' = token_blacklist \cup {src.t}
                /\ UNCHANGED active_sessions
           ELSE UNCHANGED <<token_blacklist, active_sessions>>
        /\ resp' = [Response("logout", "", req, 200, "Successfully logged out")
                      EXCEPT !.deleted = BothCookies]
        /\ UNCHANGED <<blog, now, login_attempts, issued>>

admin_logout(req) ==
    LET src == extract_logout_token(req)
        valid == src.k = "tok" /\ verify_token(src.t, token_blacklist, now) = "ok"
    IN  /\ IF valid
           THEN /\ token_blacklist' = token_blacklist \cup {src.t}
                /\ active_sessions' = IF src.t.sid \in DOMAIN active_sessions
                                      THEN Without(active_sessions, src.t.sid)
                                      ELSE active_sessions
           ELSE UNCHANGED <<token_blacklist, active_sessions>>
        /\ resp' = [Response("logout", "", req, 200, "Successfully logged out")
                      EXCEPT !.deleted = BothCookies]
        /\ UNCHANGED <<blog, now, login_attempts, issued>>

\* a rejection that blacklists the token the request presented
Rejected_revoking(op, req, detail) ==
    /\ resp' = Response(op, "", req, 401, detail)
    /\ token_blacklist' = IF req.auth.k = "tok" THEN token_blacklist \cup {req.auth.t}
                          ELSE token_blacklist
    /\ UNCHANGED <<blog, now, login_attempts, active_sessions, issued>>

Rejected(op, req, detail) ==
    /\ resp' = Response(op, "", req, 401, detail)
    /\ UNCHANGED <<blog, now, login_attempts, active_sessions, token_blacklist, issued>>

\* the payload verify_admin_token hands to the route
Claims(req) == extract_admin_token(req).t

admin_dashboard(req) ==
    LET v == verify_admin_token(req, active_sessions, token_blacklist, now) IN
    IF v # "ok" THEN Rejected("dashboard", req, v)
    ELSE /\ resp' = Response("dashboard", "", req, 200, "ok")
         /\ UNCHANGED <<blog, now, login_attempts, active_sessions, token_blacklist, issued>>

\* terminate_session that removes every session of the named one's owner
terminate_session_owner(req, session_id) ==
    LET v == verify_admin_token(req, active_sessions, token_blacklist, now) IN
    IF v # "ok" THEN Rejected("terminate_session", req, v)
    ELSE /\ active_sessions' =
              IF session_id \in DOMAIN active_sessions
                 /\ active_sessions[session_id].username = Claims(req).sub
              THEN [s \in {x \in DOMAIN active_sessions :
                              active_sessions[x].username # Claims(req).sub}
                      |-> active_sessions[s]]
              ELSE active_sessions
         /\ resp' = Response("terminate_session", "", req, 200, "ok")
         /\ UNCHANGED <<blog, now, login_attempts, token_blacklist, issued>>

terminate_session(req, session_id) ==
    LET v == verify_admin_token(req, active_sessions, token_blacklist, now) IN
    IF v # "ok" THEN Rejected("terminate_session", req, v)
    ELSE /\ active_sessions' =
              IF session_id \in DOMAIN active_sessions
                 /\ active_sessions[session_id].username = Claims(req).sub
              THEN Without(active_sessions, session_id)
              ELSE active_sessions
         /\ resp' = Response("terminate_session", "", req, 200, "ok")
         /\ UNCHANGED <<blog, now, login_attempts, token_blacklist, issued>>

\* the session_details of security_status: the registry restricted to the
\* sessions of one user
user_sessions(sessions, username) ==
    [s \in {x \in DOMAIN sessions : sessions[x].username = username} |-> sessions[s]]

security_status(req) ==
    LET v == verify_admin_token(req, active_sessions, token_blacklist, now) IN
    IF v # "ok" THEN Rejected("security_status", req, v)
    ELSE /\ resp' = [Response("security_status", "", req, 200, "ok")
                       EXCEPT !.reported = user_sessions(active_sessions, Claims(req).sub)]
         /\ UNCHANGED <<blog, now, login_attempts, active_sessions, token_blacklist, issued>>

\* the active_sessions of security_logs: the whole registry
security_logs(req) ==
    LET v == verify_admin_token(req, active_sessions, token_blacklist, now) IN
    IF v # "ok" THEN Rejected("security_logs", req, v)
    ELSE /\ resp' = [Response("security_logs", "", req, 200, "ok")
                       EXCEPT !.reported = active_sessions]
         /\ UNCHANGED <<blog, now, login_attempts, active_sessions, token_blacklist, issued>>

\* sessions_to_remove that does not spare the current session
sessions_to_remove_all(sessions, username, current_session) ==
    {s \in DOMAIN sessions : sessions[s].username = username}

sessions_to_remove(sessions, username, current_session) ==
    {s \in DOMAIN sessions : s # current_session /\ sessions[s].username = username}

\* emergency_lockdown that also revokes the tokens of the sessions it removes
emergency_lockdown_revoking(req) ==
    LET v == verify_admin_token(req, active_sessions, token_blacklist, now) IN
    IF v # "ok" THEN Rejected("emergency_lockdown", req, v)
    ELSE LET gone == sessions_to_remove(active_sessions, Claims(req).sub, Claims(req).sid) IN
         /\ active_sessions' = [s \in (DOMAIN active_sessions) \ gone |-> active_sessions[s]]
         /\ token_blacklist' = token_blacklist \cup {tk \in issued : tk.sid \in gone}
         /\ resp' = [Response("emergency_lockdown", "", req, 200, "ok")
                       EXCEPT !.terminated = gone]
         /\ UNCHANGED <<blog, now, login_attempts, issued>>

emergency_lockdown(req) ==
    LET v == verify_admin_token(req, active_sessions, token_blacklist, now) IN
    IF v # "ok" THEN Rejected("emergency_lockdown", req, v)
    ELSE LET gone == sessions_to_remove(active_sessions, Claims(req).sub, Claims(req).sid) IN
         /\ active_sessions' = [s \in (DOMAIN active_sessions) \ gone |-> active_sessions[s]]
         /\ resp' = [Response("emergency_lockdown", "", req, 200, "ok")
                       EXCEPT !.terminated = gone]
         /\ UNCHANGED <<blog, now, login_attempts, token_blacklist, issued>>

\* reset_security that also empties the session registry
reset_security_sessions(req) ==
    LET v == verify_admin_token(req, active_sessions, token_blacklist, now) IN
    IF v # "ok" THEN Rejected("reset_security", req, v)
    ELSE /\ login_attempts' = [x \in {} |-> <<0, 0, 0>>]
         /\ token_blacklist' = {}
         /\ active_sessions' = NoSessions
         /\ resp' = Response("reset_security", "", req, 200, "ok")
         /\ UNCHANGED <<blog, now, issued>>

reset_security(req) ==
    LET v == verify_admin_token(req, active_sessions, token_blacklist, now) IN
    IF v # "ok" THEN Rejected("reset_security", req, v)
    ELSE /\ login_attempts' = [x \in {} |-> <<0, 0, 0>>]
         /\ token_blacklist' = {}
         /\ resp' = Response("reset_security", "", req, 200, "ok")
         /\ UNCHANGED <<blog, now, active_sessions, issued>>

\* --------------------------------------------------------- blog handlers
\* collection.find_one({"slug": slug, "_id": {"$ne": post_id}}) finds a post
find_one(posts, slug, post_id) ==
    \E p \in DOMAIN posts : p # post_id /\ posts[p].slug = slug

\* the creating calls in flight, each of which will insert a document
Creating == {c \in Calls : blog_calls[c].pc = "insert"}

\* the loop of the public routes after a find_one: stop when the slug is
\* free, otherwise try the next numbered slug
NextTry(call, write) ==
    IF ~find_one(blog_posts, call.slug, call.post_id)
    THEN [call EXCEPT !.pc = write]
    ELSE [call EXCEPT !.slug = Numbered(slugify(call.title), call.counter),
                      !.counter = call.counter + 1]

\* blog.py create_blog_post up to the answer of its first find_one
blog_create_blog_post(c, title) ==
    /\ blog_calls[c] = Idle
    /\ Cardinality(DOMAIN blog_posts) + Cardinality(Creating) < MaxPosts
    /\ blog_calls' = [blog_calls EXCEPT ![c] =
          NextTry(Call("blog.create_blog_post", NoReq, NoPost, title,
                       slugify(title), 1, "find"), "insert")]
    /\ UNCHANGED <<blog_posts, now, login_attempts, active_sessions,
                   token_blacklist, issued, resp>>

\* blog.py update_blog_post with a title, up to the answer of its first
\* find_one
blog_update_blog_post(c, post_id, title) ==
    /\ blog_calls[c] = Idle
    /\ blog_calls' = [blog_calls EXCEPT ![c] =
          NextTry(Call("blog.update_blog_post", NoReq, post_id, title,
                       slugify(title), 1, "find"), "update")]
    /\ UNCHANGED <<blog_posts, now, login_attempts, active_sessions,
                   token_blacklist, issued, resp>>

\* a further turn of the while loop of the public routes
blog_find_one(c) ==
    /\ blog_calls[c].pc = "find"
    /\ blog_calls' = [blog_calls EXCEPT ![c] =
          NextTry(@, IF @.route = "blog.create_blog_post" THEN "insert" ELSE "update")]
    /\ UNCHANGED <<blog_posts, now, login_attempts, active_sessions,
                   token_blacklist, issued, resp>>

\* admin.py create_blog_post up to the answer of its find_one
admin_create_blog_post(c, req, title) ==
    LET v == verify_admin_token(req, active_sessions, token_blacklist, now) IN
    /\ blog_calls[c] = Idle
    /\ Cardinality(DOMAIN blog_posts) + Cardinality(Creating) < MaxPosts
    /\ IF v # "ok" THEN Rejected("admin.create_blog_post", req, v)
       ELSE IF find_one(blog_posts, slugify(title), NoPost)
       THEN /\ resp' = Response("admin.create_blog_post", "", req, 400,
                                "A post with this title already exists")
            /\ UNCHANGED <<blog, now, login_attempts, active_sessions,
                           token_blacklist, issued>>
       ELSE /\ blog_calls' = [blog_calls EXCEPT ![c] =
                  Call("admin.create_blog_post", req, NoPost, title,
                       slugify(title), 0, "insert")]
            /\ UNCHANGED <<blog_posts, now, login_attempts, active_sessions,
                           token_blacklist, issued, resp>>

\* collection.insert_one(post_data) and the answer of the creating route
insert_one(c) ==
    LET call == blog_calls[c]
        id == Cardinality(DOMAIN blog_posts) + 1
    IN  /\ call.pc = "insert"
        /\ blog_posts' = [p \in DOMAIN blog_posts \cup {id} |->
                             IF p = id THEN Post(call.title, call.slug)
                             ELSE blog_posts[p]]
        /\ blog_calls' = [blog_calls EXCEPT ![c] = Idle]
        /\ resp' = Response(call.route, "", call.req,
                            IF call.route = "blog.create_blog_post" THEN 201 ELSE 200,
                            "Blog post created successfully")
        /\ UNCHANGED <<now, login_attempts, active_sessions, token_blacklist, issued>>

\* collection.update_one({"_id": post_id}, {"$set": update_data}) and the
\* answer of the updating route
update_one(posts, post_id, title, slug) ==
    IF post_id \in DOMAIN posts
    THEN [posts EXCEPT ![post_id] = Post(title, slug)]
    ELSE posts

\* matched_count == 0 raises 404; in admin.py the raise is inside the try
\* whose except answers 400 to every exception
Updated(route, req, post_id) ==
    IF post_id \in DOMAIN blog_posts
    THEN Response(route, "", req, 200, "Blog post updated successfully")
    ELSE IF route = "admin.update_blog_post"
    THEN Response(route, "", req, 400, "Invalid blog post ID")
    ELSE Response(route, "", req, 404, "Blog post not found")

blog_update_one(c) ==
    LET call == blog_calls[c] IN
    /\ call.pc = "update"
    /\ blog_posts' = update_one(blog_posts, call.post_id, call.title, call.slug)
    /\ blog_calls' = [blog_calls EXCEPT ![c] = Idle]
    /\ resp' = Updated(call.route, call.req, call.post_id)
    /\ UNCHANGED <<now, login_attempts, active_sessions, token_blacklist, issued>>

\* admin.py update_blog_post with a title: the slug of the new title is
\* written by its one database operation
admin_update_blog_post(req, post_id, title) ==
    LET v == verify_admin_token(req, active_sessions, token_blacklist, now) IN
    IF v # "ok" THEN Rejected("admin.update_blog_post", req, v)
    ELSE /\ blog_posts' = update_one(blog_posts, post_id, title, slugify(title))
         /\ resp' = Updated("admin.update_blog_post", req, post_id)
         /\ UNCHANGED <<blog_calls, now, login_attempts, active_sessions,
                        token_blacklist, issued>>

\* requests that present as a bearer header a minted token or one with a
\* bad signature, or that present none
Bearer(tk) == Req(Tok(tk), Absent, Absent)
BearerRequests == {Bearer(tk) : tk \in issued \cup {Garbage}} \cup {NoReq}

\* ---------------------------------------------------- sessions and tokens
\* One client address that always submits the right credentials; the clock
\* reaches the expiry of a 30-minute token.
SessionInstants == {ACCESS_TOKEN_EXPIRE_MINUTES * 60 - 1, ACCESS_TOKEN_EXPIRE_MINUTES * 60}

Next ==
    \/ Tick(SessionInstants)
    \/ admin_login(IP1, ADMIN_USERNAME, ADMIN_PASSWORD, FALSE)
    \/ \E req \in BearerRequests : admin_logout(req)
    \/ \E req \in BearerRequests : admin_dashboard(req)
    \/ \E req \in BearerRequests, s \in Sids : terminate_session(req, s)
    \/ \E req \in BearerRequests : emergency_lockdown(req)
    \/ \E req \in BearerRequests : reset_security(req)

Spec == Init /\ [][Next]_vars

\* ------------------------------------------------------------ rate limiter
\* Two client addresses that submit right and wrong credentials; the clock
\* reaches the last second of a lockout that began at 0 and the instant it
\* ends; reset_security is called with a token a login returned.
LimiterInstants == {LOCKOUT_DURATION - 1, LOCKOUT_DURATION}
IPs == {IP1, IP2}
LoginData == {Credentials(ADMIN_USERNAME, ADMIN_PASSWORD),
              Credentials(ADMIN_USERNAME, "wrong")}
IssuedRequests == {Bearer(tk) : tk \in issued}

NextLimiter ==
    \/ Tick(LimiterInstants)
    \/ \E ip \in IPs, c \in LoginData :
          admin_login(ip, c.username, c.password, TRUE)
    \/ \E req \in IssuedRequests : reset_security(req)

SpecLimiter == Init /\ [][NextLimiter]_vars

\* ------------------------------------------------------- token extraction
\* Requests that combine the three token sources in every way.
RequestTokens == issued \cup {Garbage}
AuthValues == {Absent, Basic, Empty} \cup {Tok(tk) : tk \in RequestTokens}
CookieValues == {Absent, Empty} \cup {Tok(tk) : tk \in RequestTokens}
Requests == {Req(a, c, x) : a \in AuthValues, c \in CookieValues, x \in CookieValues}

NextRequest ==
    \/ admin_login(IP1, ADMIN_USERNAME, ADMIN_PASSWORD, FALSE)
    \/ \E req \in Requests : admin_dashboard(req)
    \/ \E req \in Requests : admin_logout(req)

SpecRequest == Init /\ [][NextRequest]_vars

\* ----------------------------------------------------------- token expiry
\* Logins with and without "remember me"; the clock passes the expiry of the
\* 30-minute tokens issued at 0 and reaches and passes that of the 7-day ones.
ExpiryInstants ==
    Around(ACCESS_TOKEN_EXPIRE_MINUTES * 60)
        \cup {REMEMBER_MINUTES * 60, REMEMBER_MINUTES * 60 + 1}

NextExpiry ==
    \/ Tick(ExpiryInstants)
    \/ \E r \in BOOLEAN : admin_login(IP1, ADMIN_USERNAME, ADMIN_PASSWORD, r)
    \/ \E req \in IssuedRequests : admin_dashboard(req)
    \/ \E req \in IssuedRequests : admin_logout(req)

SpecExpiry == Init /\ [][NextExpiry]_vars

\* ------------------------------------------------------- session registry
\* One client address that submits right and wrong credentials at one
\* instant; the routes that read or shrink the registry are called with
\* minted tokens, a bad token or none.
RegistryLogins == LoginData \cup {Credentials("guest", ADMIN_PASSWORD)}

NextRegistry ==
    \/ \E c \in RegistryLogins : admin_login(IP1, c.username, c.password, FALSE)
    \/ \E req \in BearerRequests : admin_logout(req)
    \/ \E req \in BearerRequests, s \in Sids : terminate_session(req, s)
    \/ \E req \in BearerRequests : security_status(req)
    \/ \E req \in BearerRequests : security_logs(req)
    \/ \E req \in BearerRequests : emergency_lockdown(req)

SpecRegistry == Init /\ [][NextRegistry]_vars

\* ------------------------------------------------------ a burst of logins
\* One client address that submits right and wrong credentials within one
\* minute.
BurstInstants == {30, 60}

NextBurst ==
    \/ Tick(BurstInstants)
    \/ \E c \in LoginData : admin_login(IP1, c.username, c.password, FALSE)

SpecBurst == Init /\ [][NextBurst]_vars

\* ------------------------------------------- logout and protected requests
\* Logins from two addresses, logouts and protected requests alone, handled
\* in any order at one instant, with minted tokens, a bad token or none.
NextRace ==
    \/ \E ip \in IPs : admin_login(ip, ADMIN_USERNAME, ADMIN_PASSWORD, FALSE)
    \/ \E req \in BearerRequests : admin_logout(req)
    \/ \E req \in BearerRequests : admin_dashboard(req)

SpecRace == Init /\ [][NextRace]_vars

\* ------------------------------------------------------- end of a lockout
\* One client address: wrong passwords are submitted during the first hour,
\* the right one again and again, and the clock goes on to the second hour.
\* Nothing else runs: no route resets the limiter and no task sweeps it.
\* The clock advances, and the client keeps trying the right password.
LiveInstants == {LOCKOUT_DURATION - 1, LOCKOUT_DURATION, 2 * LOCKOUT_DURATION}

NextLive ==
    \/ Tick(LiveInstants)
    \/ now <= LOCKOUT_DURATION /\ admin_login(IP1, ADMIN_USERNAME, "wrong", FALSE)
    \/ admin_login(IP1, ADMIN_USERNAME, ADMIN_PASSWORD, FALSE)

SpecLive ==
    /\ Init /\ [][NextLive]_vars
    /\ WF_vars(Tick(LiveInstants))
    /\ WF_vars(admin_login(IP1, ADMIN_USERNAME, ADMIN_PASSWORD, FALSE))

\* ------------------------------------------------------ rejected requests
\* One client address that submits right and wrong credentials, and the
\* logout, a read-only route and the routes that rewrite the shared state,
\* called with minted tokens, a bad token or none (terminate_session with
\* minted tokens); the clock reaches the expiry of the 30-minute tokens,
\* so that requests are rejected for each reason verify_admin_token has.
RejectInstants == {ACCESS_TOKEN_EXPIRE_MINUTES * 60}

NextReject ==
    \/ Tick(RejectInstants)
    \/ \E c \in LoginData : admin_login(IP1, c.username, c.password, FALSE)
    \/ \E req \in BearerRequests : admin_logout(req)
    \/ \E req \in BearerRequests : admin_dashboard(req)
    \/ \E req \in IssuedRequests, s \in Sids : terminate_session(req, s)
    \/ \E req \in BearerRequests : emergency_lockdown(req)
    \/ \E req \in BearerRequests : reset_security(req)

SpecReject == Init /\ [][NextReject]_vars

\* ------------------------------------------------------- revoked tokens
\* Sessions that leave the registry by logout only: one client logs in and
\* out, calls a protected route and resets the security state, while the
\* clock reaches the last second of the first tokens and their expiry.
RevokeInstants == {ACCESS_TOKEN_EXPIRE_MINUTES * 60 - 1, ACCESS_TOKEN_EXPIRE_MINUTES * 60}

NextRevoke ==
    \/ Tick(RevokeInstants)
    \/ admin_login(IP1, ADMIN_USERNAME, ADMIN_PASSWORD, FALSE)
    \/ \E req \in BearerRequests : admin_logout(req)
    \/ \E req \in BearerRequests : admin_dashboard(req)
    \/ \E req \in BearerRequests : reset_security(req)

SpecRevoke == Init /\ [][NextRevoke]_vars

\* ------------------------------------------------------------- blog posts
\* The public and the admin routes that create a post or retitle one, called
\* at one instant by clients whose calls interleave at the database
\* operations; the admin routes are called with the token of the one login
\* or with none.
NextBlog ==
    \/ issued = {} /\ admin_login(IP1, ADMIN_USERNAME, ADMIN_PASSWORD, FALSE)
    \/ \E c \in Calls, title \in Titles : blog_create_blog_post(c, title)
    \/ \E c \in Calls, p \in PostIds, title \in Titles : blog_update_blog_post(c, p, title)
    \/ \E c \in Calls : blog_find_one(c)
    \/ \E c \in Calls, req \in IssuedRequests \cup {NoReq}, title \in Titles :
          admin_create_blog_post(c, req, title)
    \/ \E c \in Calls : insert_one(c)
    \/ \E c \in Calls : blog_update_one(c)
    \/ \E req \in IssuedRequests \cup {NoReq}, p \in PostIds, title \in Titles :
          admin_update_blog_post(req, p, title)

SpecBlog == Init /\ [][NextBlog]_vars

\* ================================================================ claims
\* the step is a login from ip with the credentials c and "remember me"
Login(ip, c) ==
    /\ resp'.op = "login" /\ resp'.ip = ip /\ resp'.login = c
    /\ admin_login(ip, c.username, c.password, TRUE)

\* what the middleware decides for a token presented as a bearer header
Verdict(tk) == verify_admin_token(Bearer(tk), active_sessions, token_blacklist, now)

\* tokens of every shape, minted or not
ProbeTokens ==
    {Token(sg, ADMIN_USERNAME, sd, 0, e, i, a) :
        sg \in BOOLEAN, sd \in Sids \cup {NoSession},
        e \in {ACCESS_TOKEN_EXPIRE_MINUTES * 60, FarFuture},
        i \in {ISSUER, "other-issuer"}, a \in {AUDIENCE, "other-audience"}}

CryptoValid(tk) ==
    tk.sig /\ now < tk.exp /\ tk.iss = ISSUER /\ tk.aud = AUDIENCE

\* C1: in every reachable state, a token is accepted by verify_admin_token
\* only if it is not blacklisted, its signature and expiry are valid, its
\* issuer and audience are the configured ones, and its session id, when
\* it has one, is registered in active_sessions.
C1_AcceptedOnlyIfValid ==
    \A tk \in issued \cup ProbeTokens :
        Verdict(tk) = "ok" =>
            /\ tk \notin token_blacklist
            /\ tk.sig /\ now < tk.exp
            /\ tk.iss = ISSUER /\ tk.aud = AUDIENCE
            /\ (tk.sid # NoSession => tk.sid \in DOMAIN active_sessions)

\* a dashboard request was granted to one token while another minted token
\* is refused
C1_Witness ==
    \E tk \in issued :
        /\ resp.op = "dashboard" /\ resp.status = 200 /\ resp.req = Bearer(tk)
        /\ Verdict(tk) = "ok"
        /\ \E o \in issued : Verdict(o) # "ok"

\* C4 (as stated): an unexpired minted token passes verify_token while it
\* has not been blacklisted, and once it is in token_blacklist verify_token
\* answers "Token revoked" from then on.
C4_OnceRevokedAlwaysRevoked ==
    [][\A tk \in issued :
          /\ (tk \notin token_blacklist /\ now < tk.exp
                => verify_token(tk, token_blacklist, now) = "ok")
          /\ (tk \in token_blacklist
                => verify_token(tk, token_blacklist', now') = "Token revoked")]_vars

\* C4 (amended): an unexpired minted token passes verify_token whenever it
\* is not in token_blacklist and fails with "Token revoked" whenever it is,
\* expired or not.
C4_RevokedWhileListed ==
    \A tk \in issued :
        /\ (tk \notin token_blacklist /\ now < tk.exp
              => verify_token(tk, token_blacklist, now) = "ok")
        /\ (tk \in token_blacklist
              => verify_token(tk, token_blacklist, now) = "Token revoked")

\* a logout has blacklisted a token, which has since expired, while another
\* minted token still passes
C4_Witness ==
    /\ \E tk \in token_blacklist : tk.sig /\ now >= tk.exp
    /\ \E tk \in issued : verify_token(tk, token_blacklist, now) = "ok"

UserSessions(sessions, username) ==
    {s \in DOMAIN sessions : sessions[s].username = username}

\* C6 (as stated): after a granted emergency_lockdown the caller's session
\* is the user's only one and every later request with the token of a
\* terminated session is rejected with "Session expired".
C6_TerminatedAlwaysSessionExpired ==
    (resp.op = "emergency_lockdown" /\ resp.status = 200) =>
        /\ UserSessions(active_sessions, resp.req.auth.t.sub) = {resp.req.auth.t.sid}
        /\ \A tk \in issued :
              tk.sid \in resp.terminated => Verdict(tk) = "Session expired"

\* C6 (amended): a granted emergency_lockdown leaves the caller's session as
\* the user's only one, with its token accepted right after the call; the
\* tokens of the other sessions are rejected, with "Session expired" while
\* they are unexpired and not blacklisted; a token whose session has left
\* the registry is never accepted again.
C6_LockdownLeavesCaller ==
    [][/\ \A tk \in issued :
             (emergency_lockdown(Bearer(tk)) /\ Verdict(tk) = "ok") =>
                 /\ UserSessions(active_sessions', tk.sub) = {tk.sid}
                 /\ verify_admin_token(Bearer(tk), active_sessions',
                                       token_blacklist', now') = "ok"
                 /\ \A o \in issued :
                       (o.sub = tk.sub /\ o.sid # tk.sid) =>
                          LET v == verify_admin_token(Bearer(o), active_sessions',
                                                      token_blacklist', now')
                          IN  /\ v \in {"Session expired", "Token expired", "Token revoked"}
                              /\ (o \notin token_blacklist /\ now < o.exp
                                    => v = "Session expired")
       /\ \A tk \in issued :
             tk.sid \notin DOMAIN active_sessions =>
                 /\ tk.sid \notin DOMAIN active_sessions'
                 /\ verify_admin_token(Bearer(tk), active_sessions',
                                       token_blacklist', now') # "ok"]_vars

\* a lockdown called with one of three sessions has terminated the other
\* two, whose tokens now meet "Session expired"
C6_Witness ==
    /\ resp.op = "emergency_lockdown" /\ resp.status = 200
    /\ Cardinality(resp.terminated) = 2
    /\ DOMAIN active_sessions = {resp.req.auth.t.sid}
    /\ Verdict(resp.req.auth.t) = "ok"
    /\ \A tk \in issued :
          tk.sid \in resp.terminated => Verdict(tk) = "Session expired"

\* C7: the rejection reason is that of the first failing check in the
\* order revocation, signature/expiry/audience/issuer, session: a
\* blacklisted token is "Token revoked" even when expired or without
\* session, an expired one is "Token expired" even when its session is
\* gone, and "Session expired" is left for tokens that pass the first two.
C7_FirstFailingCheck ==
    \A tk \in issued \cup ProbeTokens :
        LET gone == tk.sid # NoSession /\ tk.sid \notin DOMAIN active_sessions IN
        /\ (tk \in token_blacklist => Verdict(tk) = "Token revoked")
        /\ (tk \notin token_blacklist /\ ~CryptoValid(tk)
              => Verdict(tk) \in {"Token expired", "Invalid token", "Invalid token issuer"})
        /\ (tk \notin token_blacklist /\ tk.sig /\ now >= tk.exp
              => Verdict(tk) = "Token expired")
        /\ (tk \notin token_blacklist /\ CryptoValid(tk) /\ gone
              => Verdict(tk) = "Session expired")

\* a request carried a token that is blacklisted, expired and without
\* session, and another minted token is expired with its session terminated
C7_Witness ==
    /\ resp.op = "dashboard" /\ resp.detail = "Token revoked"
    /\ \E tk \in token_blacklist :
          resp.req = Bearer(tk) /\ now >= tk.exp /\ tk.sid \notin DOMAIN active_sessions
    /\ \E tk \in issued \ token_blacklist :
          now >= tk.exp /\ tk.sid \notin DOMAIN active_sessions

\* the token a request presents passes every check of verify_token
PresentsGoodToken(req) ==
    /\ req.auth.k = "tok"
    /\ req.auth.t \notin token_blacklist
    /\ CryptoValid(req.auth.t)

\* C9: admin_logout always answers success and deletes both cookies; when
\* the presented token is missing, invalid, expired or already revoked it
\* leaves active_sessions and token_blacklist as they are.
C9_LogoutAlwaysSucceeds ==
    [][\A req \in BearerRequests :
          admin_logout(req) =>
              /\ resp'.status = 200
              /\ resp'.deleted = BothCookies
              /\ (~PresentsGoodToken(req)
                    => UNCHANGED <<active_sessions, token_blacklist>>)]_vars

\* a logout was answered for an expired token whose session stays registered
C9_Witness ==
    /\ resp.op = "logout" /\ resp.status = 200 /\ resp.deleted = BothCookies
    /\ \E tk \in issued \ token_blacklist :
          resp.req = Bearer(tk) /\ now >= tk.exp /\ tk.sid \in DOMAIN active_sessions

\* the address has reached the maximum of recorded failures and the lockout
\* duration has not passed since the first of them
Locked(ip) ==
    /\ ip \in DOMAIN login_attempts
    /\ login_attempts[ip][1] >= MAX_LOGIN_ATTEMPTS
    /\ now - login_attempts[ip][2] < LOCKOUT_DURATION

LimitedLogin(ip) ==
    \A c \in LoginData :
        Login(ip, c) =>
            /\ resp'.status = 429
            /\ resp'.token = NoToken
            /\ UNCHANGED <<login_attempts, active_sessions, token_blacklist, issued>>

ResetGranted ==
    \E req \in IssuedRequests :
        /\ resp'.op = "reset_security" /\ resp'.req = req
        /\ verify_admin_token(req, active_sessions, token_blacklist, now) = "ok"
        /\ reset_security(req)

\* C2 (as stated): once an address has MAX_LOGIN_ATTEMPTS recorded failures
\* within the lockout window, every login from it is answered 429, right
\* credentials or not, creates no session and issues no token, and the
\* address stays locked in every next state in which the window has not
\* elapsed.
C2_LockedUntilWindowElapses ==
    [][\A ip \in IPs :
          Locked(ip) =>
              /\ LimitedLogin(ip)
              /\ (now' - login_attempts[ip][2] < LOCKOUT_DURATION
                    => check_rate_limit(login_attempts', ip, now').locked)]_vars

\* C2 (amended): the same, the address staying locked until the window has
\* elapsed or a granted reset_security has cleared login_attempts.
C2_LockedUntilWindowOrReset ==
    [][\A ip \in IPs :
          Locked(ip) =>
              /\ login_attempts[ip][1] = MAX_LOGIN_ATTEMPTS
              /\ LimitedLogin(ip)
              /\ ((now' - login_attempts[ip][2] < LOCKOUT_DURATION /\ ~ResetGranted)
                    => check_rate_limit(login_attempts', ip, now').locked)
              /\ (ResetGranted => ~check_rate_limit(login_attempts', ip, now').locked)]_vars

\* a login with the right credentials was answered 429 one second before
\* the lockout of its address ends
C2_Witness ==
    /\ resp.op = "login" /\ resp.status = 429
    /\ resp.login = Credentials(ADMIN_USERNAME, ADMIN_PASSWORD)
    /\ Locked(resp.ip)
    /\ now - login_attempts[resp.ip][2] = LOCKOUT_DURATION - 1

\* C3: a granted login leaves no login-attempt record for its address,
\* whatever the count was; a record appears only through a failed login
\* from that address, and then it is a record of count 1 whose
\* first-attempt time is the time of that failure.
C3_SuccessClearsRecord ==
    [][\A ip \in IPs :
          /\ \A c \in LoginData :
                (Login(ip, c) /\ resp'.status = 200)
                   => ip \notin DOMAIN login_attempts'
          /\ (ip \notin DOMAIN login_attempts /\ ip \in DOMAIN login_attempts')
                => /\ resp'.op = "login" /\ resp'.status = 401 /\ resp'.ip = ip
                   /\ login_attempts'[ip] = <<1, now', now'>>]_vars

\* an address with a session registered earlier has a fresh record of one
\* failure, made after the clock moved
C3_Witness ==
    /\ resp.op = "login" /\ resp.status = 401
    /\ now > 0
    /\ resp.ip \in DOMAIN login_attempts
    /\ login_attempts[resp.ip] = <<1, now, now>>
    /\ \E tk \in issued :
          /\ tk.iat < now
          /\ tk.sid \in DOMAIN active_sessions
          /\ active_sessions[tk.sid].ip_address = resp.ip

Carries(src) == src.k = "tok"

\* the first of the three sources, in the documented order, that carries a
\* token
FirstCarried(req) ==
    LET order == <<req.auth, req.cookie, req.xauth>>
        carrying == {i \in 1..3 : Carries(order[i])}
    IN  IF carrying = {} THEN Absent
        ELSE order[CHOOSE i \in carrying : \A j \in carrying : i <= j]

\* C8: verify_admin_token takes the token of the first source that carries
\* one, in the order Authorization bearer, admin_token cookie, x-auth-token
\* header, and answers "Not authenticated" only when none of the three
\* carries a token.
C8_FirstCarriedTokenWins ==
    resp.op = "dashboard" =>
        /\ (resp.detail = "Not authenticated" <=> ~Carries(FirstCarried(resp.req)))
        /\ (Carries(FirstCarried(resp.req))
              => resp.detail = Verdict(FirstCarried(resp.req).t))

\* the lifetime a login asks for
Lifetime(remember) == IF remember THEN 7 * 24 * 3600 ELSE 30 * 60

\* C10: a login at time t0 returns a token issued at t0 that expires at t0
\* plus the lifetime asked for, and a minted token that is not blacklisted
\* passes verify_token at every time before its expiry and meets "Token
\* expired" at every time after it.
C10_AcceptedUntilExpiry ==
    [][/\ \A r \in BOOLEAN :
             (resp'.op = "login" /\ admin_login(IP1, ADMIN_USERNAME, ADMIN_PASSWORD, r)) =>
                 /\ resp'.token \in issued'
                 /\ resp'.token.iat = now
                 /\ resp'.token.exp = now + Lifetime(r)
       /\ \A tk \in issued' \ token_blacklist' :
             /\ (now' < tk.exp => verify_token(tk, token_blacklist', now') = "ok")
             /\ (now' > tk.exp
                   => verify_token(tk, token_blacklist', now') = "Token expired")]_vars

\* a seven-day token was refused as expired one second after its expiry,
\* while a 30-minute token issued later is still accepted
C10_Witness ==
    /\ resp.op = "dashboard" /\ resp.detail = "Token expired"
    /\ \E tk \in issued \ token_blacklist :
          /\ resp.req = Bearer(tk)
          /\ tk.exp - tk.iat = Lifetime(TRUE)
          /\ now = tk.exp + 1
    /\ \E tk \in issued \ token_blacklist :
          /\ tk.exp - tk.iat = Lifetime(FALSE)
          /\ now < tk.exp
          /\ Verdict(tk) = "ok"

\* C11: a granted login issues a token that lives 30 minutes (1800 s)
\* without "remember me" and 7 days (604800 s) with it, and the expires_in
\* it returns and the max_age of the admin_token and admin_session cookies
\* it sets are that lifetime in seconds.
C11_LoginLifetime ==
    [][\A r \in BOOLEAN :
          (resp'.op = "login" /\ admin_login(IP1, ADMIN_USERNAME, ADMIN_PASSWORD, r)) =>
              LET ttl == IF r THEN 604800 ELSE 1800 IN
              /\ resp'.status = 200
              /\ resp'.token.exp - resp'.token.iat = ttl
              /\ resp'.expires_in = ttl
              /\ resp'.set_cookies = {Cookie("admin_token", ttl),
                                      Cookie("admin_session", ttl)}]_vars

\* a "remember me" login was granted with expires_in and both max_age at
\* 604800 after a login without it had issued a token of 1800 seconds
C11_Witness ==
    /\ resp.op = "login" /\ resp.status = 200
    /\ resp.expires_in = 604800
    /\ resp.token.exp = resp.token.iat + 604800
    /\ {c.key : c \in resp.set_cookies} = BothCookies
    /\ \A c \in resp.set_cookies : c.max_age = 604800
    /\ \E tk \in issued : tk.exp = tk.iat + 1800

\* C12: a terminate_session call removes at most the session it names, and
\* only when the call is authenticated and that session's username is the
\* subject of the caller's token; security_status reports exactly the
\* registered sessions of the caller, and every session security_logs
\* reports carries the caller's username; a rejected call reports nothing.
C12_OwnSessionsOnly ==
    [][\A req \in BearerRequests :
          LET granted == Verdict(req.auth.t) = "ok" /\ req.auth.k = "tok"
              sub == Claims(req).sub
          IN  /\ \A s \in Sids :
                    terminate_session(req, s) =>
                       /\ (DOMAIN active_sessions) \ (DOMAIN active_sessions') \subseteq {s}
                       /\ \A x \in DOMAIN active_sessions' :
                             /\ x \in DOMAIN active_sessions
                             /\ active_sessions'[x] = active_sessions[x]
                       /\ (s \in DOMAIN active_sessions /\ s \notin DOMAIN active_sessions'
                             => granted /\ active_sessions[s].username = sub)
              /\ security_status(req) =>
                    /\ UNCHANGED active_sessions
                    /\ DOMAIN resp'.reported =
                          IF granted THEN UserSessions(active_sessions, sub) ELSE {}
                    /\ \A x \in DOMAIN resp'.reported :
                          resp'.reported[x] = active_sessions[x]
              /\ security_logs(req) =>
                    /\ UNCHANGED active_sessions
                    /\ (~granted => DOMAIN resp'.reported = {})
                    /\ \A x \in DOMAIN resp'.reported :
                          /\ resp'.reported[x] = active_sessions[x]
                          /\ resp'.reported[x].username = sub]_vars

\* security_logs has reported two sessions, both the caller's, while a
\* third minted token has lost its session without being revoked
C12_Witness ==
    /\ resp.op = "security_logs" /\ resp.status = 200
    /\ Cardinality(DOMAIN resp.reported) = 2
    /\ \A x \in DOMAIN resp.reported : resp.reported[x].username = resp.req.auth.t.sub
    /\ \E tk \in issued \ token_blacklist : tk.sid \notin DOMAIN active_sessions

C14_LockoutNotExtended ==
    [][/\ \A ip \in IPs, c \in LoginData :
             (ip \in DOMAIN login_attempts
              /\ login_attempts[ip][1] >= MAX_LOGIN_ATTEMPTS
              /\ Login(ip, c))
             => IF now - login_attempts[ip][2] < LOCKOUT_DURATION
                THEN /\ resp'.status = 429
                     /\ ip \in DOMAIN login_attempts'
                     /\ login_attempts'[ip] = login_attempts[ip]
                ELSE resp'.status \in {200, 401}
       /\ \A ip \in IPs :
             (Locked(ip) /\ \E o \in IPs, c \in LoginData :
                                Login(o, c))
             => /\ ip \in DOMAIN login_attempts'
                /\ login_attempts'[ip] = login_attempts[ip]]_vars

\* a login was answered 429 one second before the lockout ends (its
\* message reports 0 minutes), and the record still holds five failures,
\* the first at 0 and the last before the rejected attempt
C14_Witness ==
    /\ resp.op = "login" /\ resp.status = 429 /\ resp.minutes = 0
    /\ resp.attempts_before = MAX_LOGIN_ATTEMPTS
    /\ now = LOCKOUT_DURATION - 1
    /\ login_attempts[resp.ip][1] = MAX_LOGIN_ATTEMPTS
    /\ login_attempts[resp.ip][2] = 0
    /\ login_attempts[resp.ip][3] < now

\* C15: a login from an address whose record has its first failure 3600 s
\* or more in the past is never answered 429 and discards that record,
\* whatever its count: when the login is granted the address has no record
\* afterwards, and when it fails the record is a new one of count 1 whose
\* first-attempt time is the time of this attempt.
C15_ExpiredRecordDeleted ==
    [][\A ip \in IPs, c \in LoginData :
          (ip \in DOMAIN login_attempts
           /\ now - login_attempts[ip][2] >= LOCKOUT_DURATION
           /\ Login(ip, c))
          => /\ resp'.attempts_before \in 1..MAX_LOGIN_ATTEMPTS
             /\ IF c.password = ADMIN_PASSWORD
                THEN resp'.status = 200 /\ ip \notin DOMAIN login_attempts'
                ELSE /\ resp'.status = 401
                     /\ ip \in DOMAIN login_attempts'
                     /\ login_attempts'[ip] = <<1, now, now>>]_vars

\* a failed login found five failures on record, the first of them 3600 s
\* old, and left a record of one failure made now
C15_Witness ==
    /\ resp.op = "login" /\ resp.status = 401
    /\ resp.attempts_before = MAX_LOGIN_ATTEMPTS
    /\ now = LOCKOUT_DURATION
    /\ login_attempts[resp.ip] = <<1, now, now>>

\* the last exchange is a granted login from the address
Granted(ip) == resp.op = "login" /\ resp.status = 200 /\ resp.ip = ip

\* C16: a locked-out address does not stay locked: with the clock advancing
\* and the client trying the right credentials, and nothing else touching
\* the limiter, a login from it is eventually granted (while a session id
\* is left to draw); the login with the right credentials made once 3600 s
\* have passed since the first failure is granted, the expired record being
\* dropped by that very call.
C16_LockoutEnds ==
    /\ (Locked(IP1) /\ Sids \ UsedSids # {}) ~> Granted(IP1)
    /\ [][(/\ IP1 \in DOMAIN login_attempts
           /\ login_attempts[IP1][1] = MAX_LOGIN_ATTEMPTS
           /\ now - login_attempts[IP1][2] >= LOCKOUT_DURATION
           /\ admin_login(IP1, ADMIN_USERNAME, ADMIN_PASSWORD, FALSE))
          => /\ resp'.status = 200
             /\ IP1 \notin DOMAIN login_attempts']_vars

\* a login that found five failures on record was granted at the very end
\* of the window of that lockout
C16_Witness ==
    /\ Granted(IP1)
    /\ resp.attempts_before = MAX_LOGIN_ATTEMPTS
    /\ now = LOCKOUT_DURATION
    /\ resp.token.iat = now
    /\ IP1 \notin DOMAIN login_attempts

\* the last exchange is a login from the address that failed at this instant
JustFailed(ip) ==
    /\ resp.op = "login" /\ resp.status = 401 /\ resp.ip = ip
    /\ ip \in DOMAIN login_attempts
    /\ login_attempts[ip][3] = now

\* C17: the handlers run one after the other, so two failed logins from
\* one address that are in flight together are handled in some order at
\* one instant.  Each login answered 401 adds one to the count it finds,
\* or starts a record of count 1 when it finds none or an elapsed one; so
\* when a second failure follows a first at the same instant, the count is
\* two more than before the first, or the record is a fresh one of count 2.
C17_BothFailuresCounted ==
    [][\A ip \in IPs :
          (Login(ip, Credentials(ADMIN_USERNAME, "wrong")) /\ resp'.status = 401)
          => /\ ip \in DOMAIN login_attempts'
             /\ login_attempts'[ip] =
                   IF ip \in DOMAIN login_attempts
                      /\ now - login_attempts[ip][2] < LOCKOUT_DURATION
                   THEN <<login_attempts[ip][1] + 1, login_attempts[ip][2], now>>
                   ELSE <<1, now, now>>
             /\ JustFailed(ip) =>
                   /\ login_attempts'[ip][1] = login_attempts[ip][1] + 1
                   /\ \/ login_attempts'[ip][1] = resp.attempts_before + 2
                      \/ login_attempts'[ip] = <<2, now, now>>]_vars

\* two failures made at the same instant, after the first hour, have left
\* a record of count 2 in place of an elapsed record of one failure
C17_Witness ==
    /\ JustFailed(resp.ip)
    /\ resp.attempts_before = 1
    /\ now = LOCKOUT_DURATION
    /\ login_attempts[resp.ip] = <<2, now, now>>

\* C18: in every reachable state the failure count of an address is at
\* most MAX_LOGIN_ATTEMPTS, whatever the order in which the logins were
\* handled, and no step changes the first-attempt time of a record that
\* is within its window: the time changes only when a failed login
\* replaces an elapsed record by a new one of count 1.
C18_CountBoundedClockKept ==
    [][\A ip \in IPs :
          /\ ip \in DOMAIN login_attempts' =>
                login_attempts'[ip][1] \in 1..MAX_LOGIN_ATTEMPTS
          /\ (ip \in DOMAIN login_attempts /\ ip \in DOMAIN login_attempts')
                => \/ login_attempts'[ip][2] = login_attempts[ip][2]
                   \/ /\ now - login_attempts[ip][2] >= LOCKOUT_DURATION
                      /\ login_attempts'[ip] = <<1, now, now>>
                      /\ resp'.op = "login" /\ resp'.status = 401 /\ resp'.ip = ip]_vars

\* a sixth wrong password at the instant of the fifth was answered 429 and
\* the record stays at five failures with the first-attempt time of the
\* streak, which began before this instant
C18_Witness ==
    /\ resp.op = "login" /\ resp.status = 429
    /\ resp.login = Credentials(ADMIN_USERNAME, "wrong")
    /\ resp.attempts_before = MAX_LOGIN_ATTEMPTS
    /\ login_attempts[resp.ip][1] = MAX_LOGIN_ATTEMPTS
    /\ login_attempts[resp.ip][3] = now
    /\ login_attempts[resp.ip][2] < now

\* C19: with logins, logouts and protected requests handled in any order,
\* a minted token is at every moment in one of two states: not blacklisted
\* with its session registered, and then a protected request that carries
\* it is authenticated, or blacklisted with its session removed, and then
\* the request is rejected with "Token revoked".  A logout passes from the
\* first to the second in one step; no state has the token blacklisted and
\* the session present, or the session removed and the token not
\* blacklisted.
C19_LogoutNotTorn ==
    /\ [](\A tk \in issued :
             \/ /\ tk \notin token_blacklist
                /\ tk.sid \in DOMAIN active_sessions
                /\ Verdict(tk) = "ok"
             \/ /\ tk \in token_blacklist
                /\ tk.sid \notin DOMAIN active_sessions
                /\ Verdict(tk) = "Token revoked")
    /\ [][\A tk \in issued :
             /\ admin_dashboard(Bearer(tk)) =>
                   /\ resp'.detail = Verdict(tk)
                   /\ resp'.status = IF tk \in token_blacklist THEN 401 ELSE 200
             /\ (admin_logout(Bearer(tk)) /\ Verdict(tk) = "ok") =>
                   /\ tk \in token_blacklist'
                   /\ tk.sid \notin DOMAIN active_sessions']_vars

\* a protected request was rejected with "Token revoked" for a token whose
\* logout has removed its session, while another session is still accepted
C19_Witness ==
    /\ resp.op = "dashboard" /\ resp.status = 401 /\ resp.detail = "Token revoked"
    /\ \E tk \in token_blacklist :
          resp.req = Bearer(tk) /\ tk.sid \notin DOMAIN active_sessions
    /\ \E tk \in issued : Verdict(tk) = "ok"

\* C20: an emergency_lockdown call leaves token_blacklist and
\* login_attempts as they are, removes only sessions whose username is the
\* subject of the caller's token, and changes no session it keeps; the
\* token of a removed session is not blacklisted by the call and still
\* passes verify_token: the middleware rejects it with "Session expired".
C20_LockdownFrame ==
    [][\A req \in BearerRequests :
          emergency_lockdown(req) =>
              LET removed == (DOMAIN active_sessions) \ (DOMAIN active_sessions') IN
              /\ UNCHANGED <<token_blacklist, login_attempts>>
              /\ removed = resp'.terminated
              /\ \A x \in DOMAIN active_sessions' :
                    x \in DOMAIN active_sessions /\ active_sessions'[x] = active_sessions[x]
              /\ \A x \in removed :
                    /\ Verdict(req.auth.t) = "ok"
                    /\ active_sessions[x].username = Claims(req).sub
              /\ \A tk \in issued :
                    tk.sid \in removed =>
                       /\ tk \notin token_blacklist'
                       /\ verify_token(tk, token_blacklist', now') = "ok"
                       /\ verify_admin_token(Bearer(tk), active_sessions',
                                             token_blacklist', now') = "Session expired"]_vars

\* a lockdown has removed a session while a token is blacklisted and the
\* address has failures on record; the removed session's token is not
\* blacklisted and meets "Session expired"
C20_Witness ==
    /\ resp.op = "emergency_lockdown" /\ resp.status = 200
    /\ resp.terminated # {}
    /\ token_blacklist # {}
    /\ IP1 \in DOMAIN login_attempts
    /\ \A tk \in issued :
          tk.sid \in resp.terminated =>
             tk \notin token_blacklist /\ Verdict(tk) = "Session expired"

\* C21: a granted login registers exactly one session under an id that was
\* never used before, removes and changes no other session, and returns a
\* token that carries that id and is accepted; every token accepted before
\* the login is still accepted after it, so the sessions of successive
\* logins are valid side by side.
C21_LoginAddsOneSession ==
    [][(admin_login(IP1, ADMIN_USERNAME, ADMIN_PASSWORD, FALSE) /\ resp'.status = 200)
       => LET sid == resp'.token.sid IN
          /\ sid \in Sids /\ sid \notin UsedSids
          /\ sid \notin DOMAIN active_sessions
          /\ DOMAIN active_sessions' = (DOMAIN active_sessions) \cup {sid}
          /\ active_sessions'[sid].username = resp'.token.sub
          /\ \A x \in DOMAIN active_sessions : active_sessions'[x] = active_sessions[x]
          /\ verify_admin_token(Bearer(resp'.token), active_sessions',
                                token_blacklist', now') = "ok"
          /\ \A tk \in issued :
                Verdict(tk) = "ok" =>
                   verify_admin_token(Bearer(tk), active_sessions',
                                      token_blacklist', now') = "ok"]_vars

\* the third login in a row has been granted and the three tokens, one per
\* session, are accepted together
C21_Witness ==
    /\ resp.op = "login" /\ resp.status = 200
    /\ Cardinality(issued) = 3
    /\ Cardinality(DOMAIN active_sessions) = 3
    /\ {tk.sid : tk \in issued} = DOMAIN active_sessions
    /\ \A tk \in issued : Verdict(tk) = "ok"

\* the reasons for which verify_admin_token rejects a request
FailureKinds ==
    {"Not authenticated", "Token revoked", "Token expired", "Invalid token",
     "Invalid token issuer", "Session expired"}

\* C22: a request that verify_admin_token rejects, on whatever route and
\* for whatever reason, is answered 401 and leaves login_attempts,
\* active_sessions and token_blacklist as they are; a login answered 429
\* leaves them as they are too, and a login answered 401 changes only the
\* login_attempts record of its address.
C22_RejectionsChangeNothing ==
    [][/\ \A req \in BearerRequests :
             (/\ resp'.req = req /\ resp'.op # "login"
              /\ Verdict(req.auth.t) # "ok" \/ req.auth.k # "tok"
              /\ \/ resp'.op = "dashboard" /\ admin_dashboard(req)
                 \/ resp'.op = "terminate_session"
                       /\ \E s \in Sids : terminate_session(req, s)
                 \/ resp'.op = "emergency_lockdown" /\ emergency_lockdown(req)
                 \/ resp'.op = "reset_security" /\ reset_security(req))
             => /\ resp'.status = 401
                /\ resp'.detail \in FailureKinds
                /\ UNCHANGED <<login_attempts, active_sessions, token_blacklist, issued>>
       /\ \A c \in LoginData :
             (/\ resp'.op = "login" /\ resp'.status # 200 /\ resp'.login = c
              /\ admin_login(IP1, c.username, c.password, FALSE))
             => /\ UNCHANGED <<active_sessions, token_blacklist, issued>>
                /\ resp'.status = 429 => UNCHANGED login_attempts
                /\ resp'.status = 401 =>
                      /\ DOMAIN login_attempts' = (DOMAIN login_attempts) \cup {IP1}
                      /\ \A ip \in (DOMAIN login_attempts) \ {IP1} :
                            login_attempts'[ip] = login_attempts[ip]]_vars

\* a reset_security call was rejected for a token whose session a lockdown
\* removed, while failures are on record and a token is blacklisted: both
\* are still there
C22_Witness ==
    /\ resp.op = "reset_security" /\ resp.status = 401
    /\ resp.detail = "Session expired"
    /\ IP1 \in DOMAIN login_attempts
    /\ token_blacklist # {}
    /\ DOMAIN active_sessions # {}

\* C23: a step adds a session only when it is a granted login, which adds
\* the one session of its token, and removes sessions only when it is a
\* granted logout, terminate_session or emergency_lockdown; the sessions a
\* step keeps are unchanged.  The passing of time (tokens expiring),
\* reset_security, failed or rate-limited logins and the read-only
\* protected route leave active_sessions as it is.
C23_SessionLifecycle ==
    [][LET added == (DOMAIN active_sessions') \ (DOMAIN active_sessions)
           removed == (DOMAIN active_sessions) \ (DOMAIN active_sessions')
       IN  /\ added # {} =>
                 /\ resp'.op = "login" /\ resp'.status = 200
                 /\ added = {resp'.token.sid}
                 /\ removed = {}
           /\ removed # {} =>
                 /\ resp'.op \in {"logout", "terminate_session", "emergency_lockdown"}
                 /\ resp'.status = 200
           /\ \A x \in (DOMAIN active_sessions) \cap (DOMAIN active_sessions') :
                 active_sessions'[x] = active_sessions[x]
           /\ now' # now => UNCHANGED active_sessions
           /\ \A req \in BearerRequests :
                 (/\ resp'.req = req /\ resp'.op \in {"reset_security", "dashboard"}
                  /\ reset_security(req) \/ admin_dashboard(req))
                 => UNCHANGED active_sessions
           /\ \A c \in LoginData :
                 (/\ resp'.op = "login" /\ resp'.status # 200 /\ resp'.login = c
                  /\ admin_login(IP1, c.username, c.password, FALSE))
                 => UNCHANGED active_sessions]_vars

\* reset_security was granted after the tokens expired: a session whose
\* token has expired is still registered, and another one is gone
C23_Witness ==
    /\ resp.op = "reset_security" /\ resp.status = 200
    /\ \E tk \in issued : now >= tk.exp /\ tk.sid \in DOMAIN active_sessions
    /\ \E tk \in issued : tk.sid \notin DOMAIN active_sessions

\* C24: every step other than a granted reset_security keeps every
\* blacklisted token in token_blacklist; a step adds to the set only when
\* it is a logout, and then it adds the one token the logout presented,
\* which passed verify_token; a granted reset_security leaves the set empty.
C24_BlacklistOnlyGrows ==
    [][/\ ~ResetGranted => token_blacklist \subseteq token_blacklist'
       /\ token_blacklist' \ token_blacklist # {} =>
             /\ resp'.op = "logout"
             /\ resp'.req.auth.k = "tok"
             /\ token_blacklist' = token_blacklist \cup {resp'.req.auth.t}
             /\ verify_token(resp'.req.auth.t, token_blacklist, now) = "ok"
       /\ ResetGranted => token_blacklist' = {}]_vars

\* a second logout has been answered and both revoked tokens are in the
\* blacklist, one of them expired since
C24_Witness ==
    /\ resp.op = "logout" /\ resp.req.auth.t \in token_blacklist
    /\ Cardinality(token_blacklist) = 2
    /\ \E tk \in token_blacklist : now >= tk.exp
    /\ \E tk \in token_blacklist : now < tk.exp

\* login_attempts with the records of the other addresses left out
OwnRecord(ip) == [x \in (DOMAIN login_attempts) \cap {ip} |-> login_attempts[x]]

\* C25: a login from one address, granted, failed or rate-limited, leaves
\* the record of every other address as it is (present or absent), and
\* what check_rate_limit answers for an address, locked or not and the
\* minutes, is what it answers when the records of the other addresses are
\* left out.
C25_PerAddress ==
    [][\A a \in IPs, b \in IPs :
          a # b =>
             /\ check_rate_limit(login_attempts, b, now).locked
                   = check_rate_limit(OwnRecord(b), b, now).locked
             /\ check_rate_limit(login_attempts, b, now).minutes
                   = check_rate_limit(OwnRecord(b), b, now).minutes
             /\ \A c \in LoginData :
                   Login(a, c) =>
                      /\ (b \in DOMAIN login_attempts <=> b \in DOMAIN login_attempts')
                      /\ b \in DOMAIN login_attempts =>
                            login_attempts'[b] = login_attempts[b]
                      /\ check_rate_limit(login_attempts', b, now').locked
                            = check_rate_limit(login_attempts, b, now).locked]_vars

\* a login from one address was granted while the other address is locked
\* out, and the lockout is still there
C25_Witness ==
    /\ resp.op = "login" /\ resp.status = 200
    /\ \E b \in IPs \ {resp.ip} :
          /\ Locked(b)
          /\ login_attempts[b][3] < now
    /\ resp.ip \notin DOMAIN login_attempts
    /\ resp.attempts_before > 0

\* the tokens admin_login can mint at the instants of SpecRevoke
RevokeTokens ==
    {create_access_token(ADMIN_USERNAME, s, expires_delta(FALSE), t) :
        s \in Sids, t \in {0} \cup RevokeInstants}

\* C26: from the state in which admin_logout has put a token on the
\* blacklist, verify_admin_token accepts that token in no later state,
\* whatever follows: further logins, the passing of time, and
\* reset_security emptying the blacklist.
C26_RevokedNeverAccepted ==
    \A tk \in RevokeTokens :
        [](tk \in token_blacklist => [](Verdict(tk) # "ok"))

\* a token that was logged out, is off the blacklist again after a
\* reset_security and has not expired, has just been refused for its
\* missing session
C26_Witness ==
    /\ resp.op = "dashboard" /\ resp.status = 401
    /\ resp.detail = "Session expired"
    /\ resp.req.auth.k = "tok"
    /\ resp.req.auth.t \in issued
    /\ resp.req.auth.t \notin token_blacklist
    /\ now < resp.req.auth.t.exp
    /\ token_blacklist = {}
    /\ active_sessions # NoSessions

\* C27: in every reachable state, the session id of every token in
\* token_blacklist is absent from active_sessions.
C27_BlacklistedHaveNoSession ==
    \A tk \in token_blacklist : tk.sid \notin DOMAIN active_sessions

\* a login was granted after a logout: the blacklist holds the token that
\* was logged out and the registry holds the new session
C27_Witness ==
    /\ resp.op = "login" /\ resp.status = 200
    /\ token_blacklist # {}
    /\ resp.token.sid \in DOMAIN active_sessions
    /\ \E tk \in token_blacklist : tk.iat = resp.token.iat /\ tk.sid < resp.token.sid

\* C28: in every reachable state, every session in active_sessions has the
\* configured admin username, so that the sessions of the admin are all
\* the sessions there are; a login is granted only to the configured
\* username and password.
C28_AdminSessionsOnly ==
    /\ \A s \in DOMAIN active_sessions : active_sessions[s].username = ADMIN_USERNAME
    /\ UserSessions(active_sessions, ADMIN_USERNAME) = DOMAIN active_sessions
    /\ (resp.op = "login" /\ resp.status = 200)
          => resp.login = Credentials(ADMIN_USERNAME, ADMIN_PASSWORD)

\* a login with another username and the right password has been refused
\* while sessions of the admin are registered
C28_Witness ==
    /\ resp.op = "login" /\ resp.status = 401
    /\ resp.login.username # ADMIN_USERNAME
    /\ resp.login.password = ADMIN_PASSWORD
    /\ Cardinality(DOMAIN active_sessions) >= 2
    /\ \A tk \in issued : tk.sub = ADMIN_USERNAME

\* C29 (as stated): whenever check_rate_limit rejects a login as
\* rate-limited, the minutes it reports are at least 1, at every instant
\* of the lockout.
C29_MinutesAtLeastOne ==
    /\ (resp.op = "login" /\ resp.status = 429) => resp.minutes >= 1
    /\ \A ip \in IPs :
          check_rate_limit(login_attempts, ip, now).locked
             => check_rate_limit(login_attempts, ip, now).minutes >= 1

\* C30 (as stated): after any sequence and any interleaving of the public
\* and the admin routes that create a blog post or retitle one, no two
\* stored blog posts have the same slug.
C30_SlugsUnique ==
    \A p \in DOMAIN blog_posts, q \in DOMAIN blog_posts :
        p # q => blog_posts[p].slug # blog_posts[q].slug
====
